---- MODULE Spec2Model ----
(***************************************************************************)
(* State-machine model of the mountain-car DDPG trainer:                   *)
(*   src/mountain_car/mountain_car.py  MountainCar.preprocess_state,       *)
(*                                     MountainCar.run_epoch,              *)
(*                                     MountainCar.run_model               *)
(*   src/mountain_car/actor.py         Actor.__init__, Actor.build_model   *)
(* The DDPG agent (ddpg.py: reset_episode, act, step, replay buffer) is    *)
(* modelled from the written specification.  The environment is an         *)
(* external collaborator: its observations, rewards and done flags are     *)
(* nondeterministic inputs drawn from small sets.                          *)
(*                                                                         *)
(* Numbers are exact rationals <<n, d>> (d > 0, lowest terms): the         *)
(* arithmetic of the source is followed operation by operation, without    *)
(* floating-point rounding.                                                *)
(***************************************************************************)
EXTENDS Integers, Sequences, FiniteSets, TLC

VARIABLES
    pc,             \* position of the control flow
    \* ---- run_model: parameters and locals
    max_epochs, n_solved, r_solved,
    epoch, solved, train_hist, test_hist,
    train_result, test_result,
    \* ---- run_epoch: parameter and locals
    training, state, done, total_reward, steps, actions_list,
    noisy_action, pure_action, action, next_state, reward,
    \* ---- environment (external): last raw observation, last action received
    env_obs, env_action,
    \* ---- DDPG agent: last state, replay buffer, learning updates
    last_state, memory, n_learn,
    \* ---- Actor: fields and the tanh output / rescaled output of its model
    action_low, action_high, action_range, raw_actions, actions,
    \* ---- observation of the calls made into the agent
    calls, act_state, step_action, memory_at_reset, n_learn_at_reset

vars == <<pc, max_epochs, n_solved, r_solved, epoch, solved, train_hist,
          test_hist, train_result, test_result, training, state, done,
          total_reward, steps, actions_list, noisy_action, pure_action,
          action, next_state, reward, env_obs, env_action, last_state,
          memory, n_learn, action_low, action_high, action_range,
          raw_actions, actions, calls, act_state, step_action,
          memory_at_reset, n_learn_at_reset>>

\* A name that is not bound (yet, or any more) holds None, the empty tuple.
\* An unbound Boolean or integer local holds FALSE or 0 instead, the values of
\* one variable being of one kind; no step reads an unbound name.
None == <<>>
\* Python's False, which is the integer 0: `solved` is False or an epoch >= 1
False == 0

-----------------------------------------------------------------------------
(* Bounds of the model *)

MaxEpochs == 3      \* max_epochs ranges over 0..MaxEpochs
MaxSteps == 2       \* the environment reports done at the latest at this step
Capacity == 2       \* capacity of the replay buffer
BatchSize == 2      \* minibatch size of the agent
ScaleGrid == 2      \* Actor inputs are multiples of 1/ScaleGrid
ScaleMax == 4       \* ... with numerators in -ScaleMax..ScaleMax
StateGrid == 8      \* preprocess_state inputs: StateGrid+1 points per range

-----------------------------------------------------------------------------
(* Exact rational arithmetic *)

Abs(n) == IF n < 0 THEN -n ELSE n

\* The greatest common divisor and the reduction to lowest terms are
\* functions, which take their arguments evaluated.
GCD[p \in Nat \X Nat] == IF p[2] = 0 THEN p[1] ELSE GCD[<<p[2], p[1] % p[2]>>]

Lowest[p \in Int \X Int] ==
    LET s == IF p[2] < 0 THEN -1 ELSE 1
        g == GCD[<<Abs(p[1]), Abs(p[2])>>]
    IN  <<(s * p[1]) \div g, (s * p[2]) \div g>>

\* n/d in lowest terms with a positive denominator (d # 0)
Rat(n, d) == Lowest[<<n, d>>]

R(n) == <<n, 1>>

\* the arithmetic of two rationals p[1], p[2]
RatPairs == (Int \X Int) \X (Int \X Int)
Sum[p \in RatPairs] == Rat(p[1][1] * p[2][2] + p[2][1] * p[1][2], p[1][2] * p[2][2])
Difference[p \in RatPairs] == Rat(p[1][1] * p[2][2] - p[2][1] * p[1][2], p[1][2] * p[2][2])
Product[p \in RatPairs] == Rat(p[1][1] * p[2][1], p[1][2] * p[2][2])
Quotient[p \in RatPairs] == Rat(p[1][1] * p[2][2], p[1][2] * p[2][1])

RAdd(a, b) == Sum[<<a, b>>]
RSub(a, b) == Difference[<<a, b>>]
RMul(a, b) == Product[<<a, b>>]
RDiv(a, b) == Quotient[<<a, b>>]
RLe(a, b) == a[1] * b[2] <= b[1] * a[2]
RLt(a, b) == a[1] * b[2] < b[1] * a[2]

RECURSIVE RSum(_)
RSum(s) == IF s = <<>> THEN R(0) ELSE RAdd(s[1], RSum(Tail(s)))

\* np.mean of a non-empty list
np_mean(s) == RDiv(RSum(s), R(Len(s)))

\* the Python slice s[-n:], n >= 1
LastN(s, n) == IF Len(s) <= n THEN s ELSE SubSeq(s, Len(s) - n + 1, Len(s))

-----------------------------------------------------------------------------
(* MountainCar.preprocess_state *)

\* a changed np_array: the new array is a view of `state`
np_array_view(st) == [data |-> st, shares |-> TRUE]

\* np.array(state): a new array holding a copy of the data of `state`;
\* shares is whether writes to the new array reach `state`.
np_array(st) == [data |-> st, shares |-> FALSE]

\* s[i] = v, with `st` the array s was made from
SetItem(s, st, i, v) ==
    [s  |-> [s EXCEPT !.data[i] = v],
     st |-> IF s.shares THEN [st EXCEPT ![i] = v] ELSE st]

ScalePosition(p) == RSub(RMul(RDiv(RAdd(p, Rat(12, 10)), Rat(18, 10)), R(2)), R(1))
ScaleVelocity(v) == RSub(RMul(RDiv(RAdd(v, Rat(7, 100)), Rat(14, 100)), R(2)), R(1))

\* The result s and the argument array as the call leaves it.
preprocess_state(st) ==
    LET s0 == np_array(st)
        w1 == SetItem(s0, st, 1, ScalePosition(st[1]))
        w2 == SetItem(w1.s, w1.st, 2, ScaleVelocity(w1.st[2]))
    IN  [s |-> w2.s.data, st |-> w2.st]

-----------------------------------------------------------------------------
(* Actor *)

\* Actor.__init__: self.action_range = action_high - action_low
ActorRange(low, high) == RSub(high, low)

\* a changed Rescale: the tanh output is not shifted to [0, 2]
RescaleUnshifted(x, range, low) == RAdd(RDiv(RMul(x, range), R(2)), low)

\* the Lambda layer: ((x + 1) * self.action_range / 2) + self.action_low
Rescale(x, range, low) == RAdd(RDiv(RMul(RAdd(x, R(1)), range), R(2)), low)


-----------------------------------------------------------------------------
(* Inputs *)

\* observations returned by env.reset() and env.step(): <<position, velocity>>
ResetObservations == {<<Rat(-1, 2), R(0)>>}
\* what env.step() may return: the car is still in the valley (a cost for the
\* action), or it reached the goal (the goal reward, the episode is done)
StepOutcomes ==
    {[obs |-> <<Rat(-12, 10), Rat(-7, 100)>>, reward |-> R(-1), done |-> FALSE],
     [obs |-> <<Rat(6, 10), Rat(7, 100)>>, reward |-> R(3), done |-> TRUE]}
\* values of n_solved and r_solved
NSolvedValues == {1, 2}
RSolvedValues == {R(0), R(2)}
\* samples of the exploration noise
Noises == {R(1)}

\* the grid of Actor bounds and the grid of tanh outputs in [-1, 1]
ScaleValues == {Rat(k, ScaleGrid) : k \in -ScaleMax..ScaleMax}
TanhValues == {Rat(k, ScaleGrid) : k \in -ScaleGrid..ScaleGrid}
\* the grid of raw states: positions in [-1.2, 0.6], velocities in [-0.07, 0.07]
Positions == {RAdd(Rat(-12, 10), Rat(18 * k, 10 * StateGrid)) : k \in 0..StateGrid}
Velocities == {RAdd(Rat(-7, 100), Rat(14 * k, 100 * StateGrid)) : k \in 0..StateGrid}

-----------------------------------------------------------------------------
(* DDPG agent and replay buffer, as the specification describes them *)

\* The hidden layers and the tanh layer of actor_local for a preprocessed
\* state: the network is opaque, this stand-in policy steers by the position
\* (a value in [-1, 1]).
ActorNet(st) == st[1]

\* a changed ReplayAdd: a full buffer starts over
ReplayAddRestart(mem, t) ==
    IF Len(mem) >= Capacity THEN <<t>> ELSE Append(mem, t)

\* ReplayBuffer.add: a ring of at most Capacity transitions, oldest evicted
ReplayAdd(mem, t) ==
    IF Len(mem) >= Capacity THEN Append(Tail(mem), t) ELSE Append(mem, t)

Clip(x, low, high) == IF RLt(x, low) THEN low ELSE IF RLt(high, x) THEN high ELSE x

\* DDPG.act: the clean action of actor_local and the action with noise added
AgentAct(st, noise) ==
    LET raw == ActorNet(st)
        pure == Rescale(raw, action_range, action_low)
    IN  [raw |-> raw, pure |-> pure,
         noisy |-> Clip(RAdd(pure, noise), action_low, action_high)]

\* DDPG.step: store the transition, advance last_state, learn once the buffer
\* holds a minibatch
AgentStep(a, r, ns, d) ==
    LET mem == ReplayAdd(memory, [state |-> last_state, action |-> a,
                                  reward |-> r, next_state |-> ns, done |-> d])
    IN  /\ memory' = mem
        /\ last_state' = ns
        /\ n_learn' = IF Len(mem) >= BatchSize THEN n_learn + 1 ELSE n_learn

-----------------------------------------------------------------------------
(* MountainCar.run_epoch *)

\* a changed SelectAction: the noisy action in both modes
SelectActionNoisy(tr, noisy, pure) == noisy

\* line 105: action = noisy_action if training else pure_action
SelectAction(tr, noisy, pure) == IF tr THEN noisy ELSE pure

\* a changed LoopState: the loop keeps acting on the state it started with
LoopStateKept(st, ns) == st

\* line 110: state = next_state
LoopState(st, ns) == ns

\* changed TrainsAgent: agent.step in no episode, in every episode
TrainsAgentNever(tr) == FALSE
TrainsAgentAlways(tr) == TRUE

\* line 115: if training
TrainsAgent(tr) == tr

\* line 112: actions_list.append(pure_action)
RecordAction(lst, noisy, pure) == Append(lst, pure)

actorVars == <<action_low, action_high, action_range, raw_actions, actions>>
paramVars == <<max_epochs, n_solved, r_solved>>
modelVars == <<epoch, solved, train_hist, test_hist, train_result, test_result>>
agentVars == <<last_state, memory, n_learn>>

\* lines 94-99: reset the environment and the agent, initialise the locals
RunEpochBegin ==
    /\ pc = "run_epoch"
    /\ \E obs \in ResetObservations :
          LET s == preprocess_state(obs).s IN
          /\ env_obs' = obs
          /\ state' = s
          /\ last_state' = s
    /\ calls' = Append(calls, "reset_episode")
    /\ memory_at_reset' = memory
    /\ n_learn_at_reset' = n_learn
    /\ actions_list' = <<>>
    /\ total_reward' = R(0)
    /\ steps' = 0
    /\ done' = FALSE
    /\ pc' = "while"
    /\ UNCHANGED <<paramVars, modelVars, actorVars, training, noisy_action,
                   pure_action, action, next_state, reward, env_action,
                   memory, n_learn, act_state, step_action>>

\* lines 100-105: the loop test, agent.act and the choice of the action
LoopAct ==
    /\ pc = "while"
    /\ IF ~done
       THEN \E noise \in Noises :
              LET a == AgentAct(state, noise) IN
              /\ steps' = steps + 1
              /\ raw_actions' = a.raw
              /\ actions' = a.pure
              /\ noisy_action' = a.noisy
              /\ pure_action' = a.pure
              /\ action' = SelectAction(training, a.noisy, a.pure)
              /\ calls' = Append(calls, "act")
              /\ act_state' = state
              /\ pc' = "env_step"
       ELSE /\ pc' = "after_loop"
            /\ UNCHANGED <<steps, raw_actions, actions, noisy_action,
                           pure_action, action, calls, act_state>>
    /\ UNCHANGED <<paramVars, modelVars, agentVars, action_low, action_high,
                   action_range, training, state, done, total_reward,
                   actions_list, next_state, reward, env_obs, env_action,
                   step_action, memory_at_reset, n_learn_at_reset>>

\* lines 108-112: step the environment and update the locals
LoopEnvStep ==
    /\ pc = "env_step"
    /\ \E o \in StepOutcomes :
          /\ env_action' = action
          /\ env_obs' = o.obs
          /\ next_state' = preprocess_state(o.obs).s
          /\ state' = LoopState(state, next_state')
          /\ reward' = o.reward
          /\ done' = (o.done \/ steps >= MaxSteps)
          /\ total_reward' = RAdd(total_reward, o.reward)
    /\ actions_list' = RecordAction(actions_list, noisy_action, pure_action)
    /\ pc' = "train"
    /\ UNCHANGED <<paramVars, modelVars, agentVars, actorVars, training,
                   steps, noisy_action, pure_action, action, calls, act_state,
                   step_action, memory_at_reset, n_learn_at_reset>>

\* lines 114-116: only train the agent if in training
LoopTrain ==
    /\ pc = "train"
    /\ IF TrainsAgent(training)
       THEN /\ AgentStep(action, reward, next_state, done)
            /\ calls' = Append(calls, "step")
            /\ step_action' = action
       ELSE UNCHANGED <<agentVars, calls, step_action>>
    /\ pc' = "loop_end"
    /\ UNCHANGED <<paramVars, modelVars, actorVars, training, state, done,
                   total_reward, steps, actions_list, noisy_action,
                   pure_action, action, next_state, reward, env_obs,
                   env_action, act_state, memory_at_reset, n_learn_at_reset>>

\* lines 118-125: render is False in every call; leave the loop when done
LoopEnd ==
    /\ pc = "loop_end"
    /\ pc' = IF done THEN "after_loop" ELSE "while"
    /\ UNCHANGED <<paramVars, modelVars, agentVars, actorVars, training,
                   state, done, total_reward, steps, actions_list,
                   noisy_action, pure_action, action, next_state, reward,
                   env_obs, env_action, calls, act_state, step_action,
                   memory_at_reset, n_learn_at_reset>>

\* lines 127-130 and the call sites 149-152: the results of the episode go to
\* run_model, the locals of run_epoch end with the call (action_std, which is
\* only printed, is left out): <<total_reward, done, action_mean, steps>>
RunEpochReturn ==
    /\ pc = "after_loop"
    /\ LET result == <<total_reward, done, np_mean(actions_list), steps>>
       IN  IF training
           THEN /\ train_result' = result
                /\ training' = FALSE
                /\ calls' = <<>>
                /\ pc' = "run_epoch"
                /\ UNCHANGED test_result
           ELSE /\ test_result' = result
                /\ pc' = "append"
                /\ UNCHANGED <<train_result, training, calls>>
    /\ state' = None /\ done' = FALSE /\ total_reward' = None /\ steps' = 0
    /\ actions_list' = None /\ noisy_action' = None /\ pure_action' = None
    /\ action' = None /\ next_state' = None /\ reward' = None
    \* the observations of the episode end with it
    /\ raw_actions' = None /\ actions' = None /\ env_action' = None
    /\ act_state' = None /\ step_action' = None
    /\ memory_at_reset' = None /\ n_learn_at_reset' = 0
    /\ UNCHANGED <<paramVars, epoch, solved, train_hist, test_hist, agentVars,
                   action_low, action_high, action_range, env_obs>>

-----------------------------------------------------------------------------
(* MountainCar.run_model *)

\* [r for r, s in hist]
RewardsOf(hist) == [i \in 1..Len(hist) |-> hist[i][1]]

\* lines 161-166: the running mean of the rewards of a history
Running(hist, ep, n) ==
    IF ep > n THEN np_mean(LastN(RewardsOf(hist), n))
    ELSE np_mean(RewardsOf(hist))

\* a changed SolvedCondition: epoch >= n_solved
SolvedConditionFrom(test_running, r, ep, n) == RLt(r, test_running) /\ ep >= n

\* line 178: test_running > r_solved and epoch > n_solved
SolvedCondition(test_running, r, ep, n) == RLt(r, test_running) /\ ep > n

\* a changed ForHasNext: range(1, max_epochs+2)
ForHasNextOneMore(ep, max) == ep <= max

\* line 148: range(1, max_epochs+1) has an epoch after ep
ForHasNext(ep, max) == ep < max

\* line 148: for epoch in range(1, max_epochs+1), entering the training episode
RunModelFor ==
    /\ pc = "for"
    /\ IF ForHasNext(epoch, max_epochs)
       THEN /\ epoch' = epoch + 1
            /\ training' = TRUE
            /\ calls' = <<>>
            /\ pc' = "run_epoch"
       ELSE /\ pc' = "return"
            /\ UNCHANGED <<epoch, training, calls>>
    /\ UNCHANGED <<paramVars, solved, train_hist, test_hist, train_result,
                   test_result, state, done, total_reward, steps,
                   actions_list, noisy_action, pure_action, action,
                   next_state, reward, env_obs, env_action, agentVars,
                   actorVars, act_state, step_action, memory_at_reset,
                   n_learn_at_reset>>

\* lines 154-182: record the epoch and check if solved (the episode results
\* are printed here and not read again before the next epoch rebinds them)
RunModelCheck ==
    /\ pc = "append"
    /\ train_hist' = Append(train_hist, <<train_result[1], train_result[4]>>)
    /\ test_hist' = Append(test_hist, <<test_result[1], test_result[4]>>)
    /\ LET test_running == Running(test_hist', epoch, n_solved)
       IN  IF SolvedCondition(test_running, r_solved, epoch, n_solved)
           THEN solved' = epoch /\ pc' = "return"
           ELSE solved' = solved /\ pc' = "for"
    /\ train_result' = None
    /\ test_result' = None
    /\ UNCHANGED <<paramVars, epoch, training, state, done, total_reward,
                   steps, actions_list, noisy_action, pure_action, action,
                   next_state, reward, env_obs, env_action, agentVars,
                   actorVars, calls, act_state, step_action, memory_at_reset,
                   n_learn_at_reset>>

\* lines 184-186: return train_hist, test_hist, solved (plot_Q only reads)
RunModelReturn ==
    /\ pc = "return"
    /\ pc' = "returned"
    /\ UNCHANGED <<paramVars, modelVars, training, state, done, total_reward,
                   steps, actions_list, noisy_action, pure_action, action,
                   next_state, reward, env_obs, env_action, agentVars,
                   actorVars, calls, act_state, step_action, memory_at_reset,
                   n_learn_at_reset>>

-----------------------------------------------------------------------------
(* The trainer: MountainCar().run_model(max_epochs, n_solved, r_solved) *)

\* the locals of run_epoch and the observations of an episode, outside a call
NoEpisode ==
    /\ training = FALSE /\ state = None /\ done = FALSE /\ total_reward = None
    /\ steps = 0 /\ actions_list = None /\ noisy_action = None
    /\ pure_action = None /\ action = None /\ next_state = None
    /\ reward = None
    /\ calls = <<>> /\ act_state = None /\ step_action = None
    /\ memory_at_reset = None /\ n_learn_at_reset = 0

\* lines 144-146
RunModelEntry ==
    /\ epoch = 0
    /\ solved = False
    /\ train_hist = <<>> /\ test_hist = <<>>
    /\ train_result = None /\ test_result = None

\* DDPG(): an empty replay buffer, no learning update made
AgentInit == last_state = None /\ memory = <<>> /\ n_learn = 0

\* Actor.__init__, lines 19-21, before the model is used
ActorInit(low, high) ==
    /\ action_low = low /\ action_high = high
    /\ action_range = ActorRange(low, high)
    /\ raw_actions = None /\ actions = None

\* MountainCarContinuous-v0 takes a force in [-1, 1]
Init ==
    /\ pc = "for"
    /\ max_epochs \in 0..MaxEpochs
    /\ n_solved \in NSolvedValues
    /\ r_solved \in RSolvedValues
    /\ RunModelEntry
    /\ NoEpisode
    /\ env_obs = None /\ env_action = None
    /\ AgentInit
    /\ ActorInit(R(-1), R(1))

Next ==
    \/ RunModelFor
    \/ RunEpochBegin
    \/ LoopAct
    \/ LoopEnvStep
    \/ LoopTrain
    \/ LoopEnd
    \/ RunEpochReturn
    \/ RunModelCheck
    \/ RunModelReturn

Spec == Init /\ [][Next]_vars

\* the single control loop always takes its next step (every step moves pc)
FairSpec == Spec /\ WF_pc(Next)

-----------------------------------------------------------------------------
(* The Actor's rescaling layer on its own: an Actor built for any bounds     *)
(* action_low <= action_high, its model applied to any tanh output.          *)

ActorBuilt ==
    /\ pc = "actor"
    /\ \E low \in ScaleValues, high \in ScaleValues :
          RLe(low, high) /\ ActorInit(low, high)
    /\ max_epochs = 0 /\ n_solved = 1 /\ r_solved = R(0)
    /\ RunModelEntry
    /\ NoEpisode
    /\ env_obs = None /\ env_action = None
    /\ AgentInit

\* self.model.predict: the tanh output x goes through the Lambda layer
ActorPredict ==
    /\ pc \in {"actor", "predicted"}
    /\ \E x \in TanhValues :
          /\ raw_actions' = x
          /\ actions' = Rescale(x, action_range, action_low)
    /\ pc' = "predicted"
    /\ UNCHANGED <<paramVars, modelVars, agentVars, action_low, action_high,
                   action_range, training, state, done, total_reward, steps,
                   actions_list, noisy_action, pure_action, action,
                   next_state, reward, env_obs, env_action, calls, act_state,
                   step_action, memory_at_reset, n_learn_at_reset>>

ActorSpec == ActorBuilt /\ [][ActorPredict]_vars

-----------------------------------------------------------------------------
(* preprocess_state on its own: lines 108-109 of run_epoch for any raw state *)
(* of the environment's ranges.  env_obs is what the environment returned,   *)
(* next_state the array handed to preprocess_state, state its result.        *)

RawStateGiven ==
    /\ pc = "preprocess"
    /\ \E p \in Positions, v \in Velocities :
          env_obs = <<p, v>> /\ next_state = <<p, v>>
    /\ max_epochs = 0 /\ n_solved = 1 /\ r_solved = R(0)
    /\ RunModelEntry
    /\ training = FALSE /\ state = None /\ done = FALSE /\ total_reward = None
    /\ steps = 0 /\ actions_list = None /\ noisy_action = None
    /\ pure_action = None /\ action = None /\ reward = None
    /\ calls = <<>> /\ act_state = None /\ step_action = None
    /\ memory_at_reset = None /\ n_learn_at_reset = 0
    /\ env_action = None
    /\ AgentInit
    /\ ActorInit(R(-1), R(1))

PreprocessCall ==
    /\ pc = "preprocess"
    /\ LET r == preprocess_state(next_state)
       IN  state' = r.s /\ next_state' = r.st
    /\ pc' = "preprocessed"
    /\ UNCHANGED <<paramVars, modelVars, agentVars, actorVars, training, done,
                   total_reward, steps, actions_list, noisy_action,
                   pure_action, action, reward, env_obs, env_action, calls,
                   act_state, step_action, memory_at_reset, n_learn_at_reset>>

PreprocessSpec == RawStateGiven /\ [][PreprocessCall]_vars

-----------------------------------------------------------------------------
(* Properties *)

InEpisode == pc \in {"while", "env_step", "train", "loop_end", "after_loop"}
EpochDone == pc \in {"for", "return", "returned"}

TestRewards == RewardsOf(test_hist)

\* the mean of the n_solved test rewards up to epoch e exceeds r_solved
MeanExceeds(e) ==
    /\ e >= n_solved
    /\ RLt(r_solved, np_mean(SubSeq(TestRewards, e - n_solved + 1, e)))

ExceedingEpochs == {e \in 1..Len(test_hist) : MeanExceeds(e)}

\* C1: after every epoch, `solved` is the first epoch at which the mean of the
\* last n_solved test rewards exceeds r_solved (epoch n_solved included), the
\* run having stopped there, and is False while there is no such epoch.
C1_SolvedAtFirstExceedingEpoch ==
    EpochDone =>
        IF ExceedingEpochs = {}
        THEN solved = False
        ELSE /\ solved \in ExceedingEpochs
             /\ \A e \in ExceedingEpochs : solved <= e
             /\ Len(test_hist) = solved

\* C2: the rescaling layer returns low + (t + 1) * (high - low) / 2, a value
\* of [low, high], with t = -1 giving low and t = 1 giving high.
C2_RescaleWithinBounds ==
    pc = "predicted" =>
        /\ RMul(R(2), RSub(actions, action_low))
             = RMul(RAdd(raw_actions, R(1)), RSub(action_high, action_low))
        /\ RLe(action_low, actions) /\ RLe(actions, action_high)
        /\ raw_actions = R(-1) => actions = action_low
        /\ raw_actions = R(1) => actions = action_high

C2_Witness ==
    /\ pc = "predicted"
    /\ raw_actions = R(1)
    /\ RLt(action_low, action_high)
    /\ actions = action_high

\* reset_episode is the first call of an episode and is made once
ResetFirstAndOnce ==
    calls # <<>> =>
        /\ calls[1] = "reset_episode"
        /\ \A i \in 2..Len(calls) : calls[i] # "reset_episode"

\* agent.step only right after an agent.act
StepFollowsAct ==
    \A i \in 1..Len(calls) : calls[i] = "step" => i > 1 /\ calls[i-1] = "act"

\* every agent.act is followed by an agent.step before the next agent call
\* and before the episode ends
ActFollowedByStep ==
    /\ \A i \in 1..Len(calls) :
          calls[i] = "act" /\ i < Len(calls) => calls[i+1] = "step"
    /\ calls # <<>> /\ pc \notin {"env_step", "train"} =>
          calls[Len(calls)] # "act"

\* C3, as claimed: in every episode, training or evaluation, reset_episode
\* comes once and first and agent.act and agent.step strictly alternate.
C3_AlternatesInEveryEpisode ==
    ResetFirstAndOnce /\ StepFollowsAct /\ ActFollowedByStep

\* C3: in a training episode reset_episode comes once and first and agent.act
\* and agent.step strictly alternate; an evaluation episode is reset_episode
\* followed by agent.act calls only; agent.step never comes without an
\* agent.act right before it.
C3_AlternatesInTraining ==
    /\ ResetFirstAndOnce
    /\ StepFollowsAct
    /\ calls # <<>> =>
          IF training THEN ActFollowedByStep
          ELSE \A i \in 2..Len(calls) : calls[i] = "act"

C3_Witness ==
    /\ pc = "after_loop"
    /\ training = TRUE
    /\ calls = <<"reset_episode", "act", "step", "act", "step">>

\* the steps one episode takes at most, and a measure of the steps run_model
\* has left: whole epochs, then episodes of the epoch, then steps of the episode
EpisodeSteps == 4 * MaxSteps + 4

StepsLeft ==
    LET ahead == (max_epochs - epoch) * 3 * EpisodeSteps
        episode == ahead + (IF training THEN 2 ELSE 1) * EpisodeSteps
        turn == 4 * (MaxSteps - steps)
    IN  CASE pc = "for" -> ahead + 2
          [] pc = "run_epoch" -> episode + 4 * MaxSteps + 3
          [] pc = "while" -> episode + turn + 2
          [] pc = "env_step" -> episode + turn + 5
          [] pc = "train" -> episode + turn + 4
          [] pc = "loop_end" -> episode + turn + 3
          [] pc = "after_loop" -> episode
          [] pc = "append" -> ahead + 3
          [] pc = "return" -> 1
          [] OTHER -> 0

WithinBudget ==
    /\ epoch <= max_epochs
    /\ solved # False => epoch = solved /\ pc \in {"return", "returned"}
    /\ pc = "returned" /\ solved = False => epoch = max_epochs
    /\ pc = "after_loop" => done

\* C4: every step of run_model brings the return nearer (the environment ends
\* every episode), so run_model returns; it runs at most max_epochs epochs,
\* none after the one that set `solved`, and exactly max_epochs when `solved`
\* stays False; the step loop of run_epoch is left only with done = True.
C4_RunsToBudgetOrSolved ==
    [][/\ WithinBudget /\ WithinBudget'
       /\ StepsLeft' < StepsLeft
       /\ StepsLeft' >= 0
       /\ (StepsLeft' = 0) = (pc' = "returned")]_vars

\* under fair scheduling of the one control loop, run_model returns
RunModelReturns == <>(pc = "returned")

C4_Witness ==
    /\ pc = "returned"
    /\ solved # False
    /\ solved < max_epochs

\* C5: over every step of the run the occupancy of the replay buffer never
\* decreases, never exceeds the capacity, and stays at the capacity once there.
C5_OccupancyNonDecreasing ==
    [][/\ Len(memory') >= Len(memory)
       /\ Len(memory') <= Capacity
       /\ Len(memory) = Capacity => Len(memory') = Capacity]_vars

\* a transition was added to the full buffer
C5_Witness ==
    /\ Len(memory) = Capacity
    /\ n_learn > Capacity - BatchSize + 1

\* C6: env.step receives the noisy action in training and the pure action in
\* evaluation, the recorded action is the pure action in both, and in training
\* agent.step receives the action env.step received.
C6_ActionsRouted ==
    /\ pc \in {"train", "loop_end"} =>
          /\ env_action = (IF training THEN noisy_action ELSE pure_action)
          /\ Len(actions_list) = steps
          /\ actions_list[steps] = pure_action
    /\ pc = "loop_end" /\ training => step_action = env_action

C6_Witness ==
    /\ pc = "loop_end"
    /\ training = TRUE
    /\ steps = 2
    /\ noisy_action # pure_action
    /\ step_action = noisy_action

\* C7: through an evaluation episode agent.step is not called, no learning
\* update is made and the replay buffer is as it was at reset_episode.
C7_EvaluationLeavesBuffer ==
    InEpisode /\ ~training =>
        /\ \A i \in 1..Len(calls) : calls[i] # "step"
        /\ memory = memory_at_reset
        /\ n_learn = n_learn_at_reset

C7_Witness ==
    /\ pc = "after_loop"
    /\ training = FALSE
    /\ steps = 2
    /\ Len(memory) > 0

\* C8: in a training episode agent.act is called on the agent's last state,
\* and the transition agent.step stores starts at the state acted on.
C8_ActsOnLastState ==
    /\ pc = "env_step" /\ training => act_state = last_state
    /\ pc = "loop_end" /\ training =>
          /\ memory[Len(memory)].state = act_state
          /\ memory[Len(memory)].next_state = next_state
          /\ last_state = state

C8_Witness ==
    /\ pc = "loop_end"
    /\ training = TRUE
    /\ steps = 2
    /\ memory[Len(memory)].state = act_state
    /\ act_state # memory[Len(memory)].next_state

C10_PreprocessMapsToUnitRange ==
    pc = "preprocessed" =>
        /\ RMul(R(9), RAdd(state[1], R(1))) = RAdd(RMul(R(10), env_obs[1]), R(12))
        /\ RMul(R(7), RAdd(state[2], R(1))) = RAdd(RMul(R(100), env_obs[2]), R(7))
        /\ \A i \in 1..2 : RLe(R(-1), state[i]) /\ RLe(state[i], R(1))
        /\ env_obs[1] = Rat(-12, 10) => state[1] = R(-1)
        /\ env_obs[1] = Rat(6, 10) => state[1] = R(1)
        /\ env_obs[2] = Rat(-7, 100) => state[2] = R(-1)
        /\ env_obs[2] = Rat(7, 100) => state[2] = R(1)
        /\ next_state = env_obs

C10_Witness ==
    /\ pc = "preprocessed"
    /\ env_obs = <<Rat(6, 10), Rat(-7, 100)>>
    /\ state = <<R(1), R(-1)>>
    /\ next_state = env_obs

====
